---- MODULE Spec2Model ----
(***************************************************************************)
(* Model of exllamav2/model.py: the module graph built by                  *)
(* ExLlamaV2.__init__, the device allocation planner set_device_map, the   *)
(* loader load, the forward dispatcher forward and the attention mask      *)
(* builder build_attn_mask.                                                *)
(*                                                                         *)
(* Python lists are indexed from 0; the model keeps the code's indices     *)
(* (idx, current_idx, layer_idx, device_idx) 0-based and stores lists as   *)
(* TLA+ sequences, so list[i] in the code is list[i + 1] here.             *)
(***************************************************************************)
EXTENDS Integers, Sequences, FiniteSets, TLC

\* ---------------------------------------------------------------- bounds

\* Largest number of transformer layers of a configuration.
MaxLayers == 2
\* Longest budget list offered to the planner.
MaxDevices == 2
\* Largest sequence length of one forward pass.
MaxSeqLen == 2
\* The sequence cache holds at most this many tokens.
MaxCacheLen == 3

\* ------------------------------------------------------------- constants

\* 1024**3, the number of bytes of one unit of the budget list, scaled down
\* so that footprints of a few bytes fill a device.
GiB == 12
\* The budget load() plans with when no gpu_split is given.
DefaultSplit == 99999
\* The additive bias that blocks a position (the least float16 value).
NegInf == -65504

\* Python's None where the code holds an integer (an unset device_idx).
None == -2
\* Python's None where the code holds a tensor.
NoTensor == [shape |-> <<>>, val |-> <<>>]
\* device_idx of a unit placed in host memory.
Host == -1

Max(a, b) == IF a >= b THEN a ELSE b

\* _torch_device: the device a device index names.
TorchDevice(idx) == IF idx = Host THEN <<"cpu">> ELSE <<"cuda", idx>>

\* ------------------------------------------------------------ the state

VARIABLES
    config,          \* ExLlamaV2.config, immutable
    footprint,       \* module.weight_footprint() per unit kind
    scratch,         \* module.scratch_space() per unit kind
    modules,         \* ExLlamaV2.modules: sequence of [kind, layer_idx]
    last_kv_layer_idx,
    device_idx,      \* module.device_idx per unit index 0..N-1
    device_tensors,  \* ExLlamaV2.device_tensors
    cache_map,       \* ExLlamaV2.cache_map: layer_idx -> device
    cache,           \* the sequence cache: [current_seq_len]
    pc,              \* position of the single thread of control
    plan,            \* locals of set_device_map
    ld,              \* locals of load
    fwd,             \* locals of forward
    result,          \* what the last call returned or raised
    hist,            \* history: what the current call has done so far
    passes,          \* history: the forward passes completed against cache
    arena            \* history: the use made of the scratch arenas

vars == <<config, footprint, scratch, modules, last_kv_layer_idx, device_idx,
          device_tensors, cache_map, cache, pc, plan, ld, fwd,
          result, hist, passes, arena>>

\* --------------------------------------------------------- module graph

Kinds == {"Embedding", "Attention", "MLP", "RMSNorm", "Linear"}

Unit(kind, layer) == [kind |-> kind, layer_idx |-> layer]

\* The loop of __init__ over range(num_hidden_layers): two appends per layer.
RECURSIVE AppendLayers(_, _, _)
AppendLayers(ms, layer_idx, n) ==
    IF layer_idx >= n THEN ms
    ELSE AppendLayers(Append(Append(ms, Unit("Attention", layer_idx)),
                             Unit("MLP", layer_idx)),
                      layer_idx + 1, n)

\* Variant of the builder below that leaves the final normalization out.
BuildModulesNoNorm(n) ==
    Append(AppendLayers(<<Unit("Embedding", None)>>, 0, n),
           Unit("Linear", None))

\* ExLlamaV2.__init__: the ordered module sequence.
BuildModules(n) ==
    Append(Append(AppendLayers(<<Unit("Embedding", None)>>, 0, n),
                  Unit("RMSNorm", None)),
           Unit("Linear", None))

\* Variant of the search below that stops at the last unit of any kind.
FindLastUnit(ms, layer_idx) == layer_idx - 1

\* The search of __init__ for the last unit that affects the k/v cache:
\* layer_idx starts at len(modules) and is decremented until an attention
\* unit is found.
RECURSIVE FindLastKV(_, _)
FindLastKV(ms, layer_idx) ==
    IF ms[(layer_idx - 1) + 1].kind = "Attention" THEN layer_idx - 1
    ELSE FindLastKV(ms, layer_idx - 1)

NumModules == Len(modules)
Idxs == 0 .. (NumModules - 1)
Mod(idx) == modules[idx + 1]
Footprint(idx) == footprint[Mod(idx).kind]
Scratch(idx) == scratch[Mod(idx).kind]

\* ----------------------------------------------------- initial state

\* The configurations the model is built from.
Configs ==
    [num_hidden_layers : 1 .. MaxLayers,
     head_dim : {1}, max_seq_len : {1}, hidden_size : {1},
     max_input_len : {1}, max_batch_size : {1}]

\* Footprints and scratch requirements the opaque units may report, in
\* bytes.  All units of one kind report the same values (they are computed
\* from the configuration alone).  The embedding table is small or larger
\* than the reserved constants; attention and feed-forward units differ in
\* their scratch requirement.
FootprintProfiles ==
    {f \in [Kinds -> {1, 2, 3, 20}] :
        /\ f["Embedding"] \in {2, 20}
        /\ f["Attention"] = 2
        /\ f["MLP"] = 3
        /\ f["RMSNorm"] = 1
        /\ f["Linear"] = 2}
ScratchProfiles ==
    {s \in [Kinds -> {0, 1, 2}] :
        /\ s["Embedding"] = 0
        /\ s["Attention"] \in {0, 2}
        /\ s["MLP"] = 1
        /\ s["RMSNorm"] = 0
        /\ s["Linear"] = s["MLP"]}

NoPlan == [allocation |-> <<>>, embed_cpu |-> FALSE, allocation_bytes |-> <<>>,
           reserve_bytes |-> <<>>, current_idx |-> 0, idx |-> 0]
NoLoad == [active |-> FALSE, given |-> FALSE, gpu_split |-> <<>>,
           lazy |-> FALSE, idx |-> 0]
NoForward == [batch_size |-> 0, seq_len |-> 0, use_cache |-> FALSE,
              input_mask |-> NoTensor, preprocess_only |-> FALSE,
              past_len |-> 0, prev_device |-> <<>>, attn_mask |-> NoTensor,
              idx |-> 0, x |-> "none", broke |-> FALSE]
NoResult == [op |-> "none", status |-> "none", leftover |-> <<>>, x |-> "none"]
\* hist.pre_* hold the placement as it was when a planning call began, for
\* as long as that call can still fail.
NoHist == [pre_device_idx |-> <<>>, pre_device_tensors |-> <<>>,
           pre_cache_map |-> <<>>, pre_seq_len |-> 0,
           loads |-> <<>>, invoked |-> <<>>, built |-> <<>>, handed |-> <<>>]

\* The history of the scratch arenas: the get_scratch_slice calls made
\* since the last begin_scratch_alloc of their device, the prepare calls
\* made, and the last call made.
NoArena ==
    [calls |-> <<>>, prepares |-> <<>>,
     last |-> [op |-> "none", device |-> None, before |-> 0]]

Init ==
    /\ config \in Configs
    /\ footprint \in FootprintProfiles
    /\ scratch \in ScratchProfiles
    /\ modules = BuildModules(config.num_hidden_layers)
    /\ last_kv_layer_idx = FindLastKV(modules, Len(modules))
    /\ device_idx = [i \in 0 .. (Len(modules) - 1) |-> None]
    /\ device_tensors = <<>>
    /\ cache_map = <<>>
    /\ cache = [current_seq_len |-> 0]
    /\ pc = "idle"
    /\ plan = NoPlan
    /\ ld = NoLoad
    /\ fwd = NoForward
    /\ result = NoResult
    /\ hist = NoHist
    /\ passes = [initial |-> cache.current_seq_len, total |-> 0, count |-> 0]
    /\ arena = NoArena

\* ------------------------------------------------------ set_device_map

\* sincos_size, constant_size, state_size and mask_size of set_device_map.
SincosSize == config.head_dim * config.max_seq_len * 2
ConstantSize == SincosSize * 2
StateSize == config.hidden_size * config.max_input_len * config.max_batch_size * 2
MaskSize == config.max_input_len * config.max_input_len * 2

\* allocation_bytes as first computed: bytes remaining per device.
InitialAllocationBytes(allocation) ==
    [i \in 1 .. Len(allocation) |->
        allocation[i] * GiB - StateSize - MaskSize - ConstantSize]

\* Variants of the reserved scratch below: the unit's own requirement
\* alone, and the sum of the requirements.
DevScratchOwn(s, reserved) == s
DevScratchSum(s, reserved) == s + reserved

\* dev_scratch = max(scratch, reserve_bytes[current_idx])
DevScratch(s, reserved) == Max(s, reserved)

\* Variants of the planner's arithmetic: the fit test without the scratch
\* term, the fit test with a strict comparison, an assignment that forgets
\* to charge the footprint, and a cursor that restarts at the first device.
FitsWithoutScratch(fp, dev_scratch, remaining) == fp <= remaining
FitsStrictly(fp, dev_scratch, remaining) == fp + dev_scratch < remaining
RemainingUncharged(remaining, fp) == remaining
CursorReset(current_idx) == 0

\* The test that ends the inner loop: the unit fits on the device.
Fits(fp, dev_scratch, remaining) == fp + dev_scratch <= remaining

\* allocation_bytes[current_idx] -= footprint
RemainingAfter(remaining, fp) == remaining - fp

\* The cursor the next unit starts from: current_idx is not reset between
\* the units.
CursorAfterAssign(current_idx) == current_idx

\* ExLlamaV2DeviceTensors.__init__
NewDeviceTensors(idx, scratch_bytes) ==
    [device_idx |-> idx, ready |-> FALSE, scratch_bytes |-> scratch_bytes,
     scratch_idx |-> 0, scratch |-> None]

\* set_cache_map: one entry per attention unit, the others kept.
AttentionIdx(layer) ==
    CHOOSE i \in Idxs : Mod(i).kind = "Attention" /\ Mod(i).layer_idx = layer
AttentionLayers == {Mod(i).layer_idx : i \in {j \in Idxs : Mod(j).kind = "Attention"}}
SetCacheMap(cm, didx) ==
    [l \in (DOMAIN cm) \cup AttentionLayers |->
        IF l \in AttentionLayers THEN TorchDevice(didx[AttentionIdx(l)])
        ELSE cm[l]]

\* The return value of set_device_map: allocation_bytes / 1024**3 per
\* device, kept as the exact fraction num / den.
Leftover(allocation_bytes) ==
    [i \in 1 .. Len(allocation_bytes) |-> [num |-> allocation_bytes[i], den |-> GiB]]

\* Budget lists a caller may pass.
Budgets == {1, 2}
RECURSIVE ListsUpTo(_, _)
ListsUpTo(S, n) ==
    IF n = 0 THEN {<<>>}
    ELSE LET shorter == ListsUpTo(S, n - 1)
         IN shorter \cup {Append(l, b) : l \in {k \in shorter : Len(k) = n - 1}, b \in S}
Allocations == ListsUpTo(Budgets, MaxDevices)

Snapshot ==
    [hist EXCEPT !.pre_device_idx = device_idx,
                 !.pre_device_tensors = device_tensors,
                 !.pre_cache_map = cache_map,
                 !.pre_seq_len = cache.current_seq_len]

\* Entry of set_device_map: lines 147-158.
EnterPlan(allocation, embed_cpu) ==
    /\ cache_map' = <<>>
    /\ plan' = [allocation |-> allocation, embed_cpu |-> embed_cpu,
                allocation_bytes |-> InitialAllocationBytes(allocation),
                reserve_bytes |-> [i \in 1 .. Len(allocation) |-> 0],
                current_idx |-> 0, idx |-> 0]
    /\ pc' = "plan"

\* The caller plans the placement before it creates and fills the sequence
\* cache (the cache is laid out from cache_map).
CacheUnused == cache.current_seq_len = passes.initial /\ passes.count = 0

SetDeviceMap(allocation, embed_cpu) ==
    /\ pc = "idle" /\ CacheUnused
    /\ EnterPlan(allocation, embed_cpu)
    /\ hist' = Snapshot
    /\ result' = [NoResult EXCEPT !.op = "set_device_map"]
    /\ UNCHANGED <<arena, config, footprint, scratch, modules,
                   last_kv_layer_idx, device_idx, device_tensors, cache, ld, fwd, passes>>

PlanUnchanged ==
    UNCHANGED <<arena, config, footprint, scratch, modules,
                last_kv_layer_idx, cache, ld, fwd, hist, passes>>

\* if idx == 0 and embed_cpu: module.set_device_idx(-1); continue
PlanEmbedCpu ==
    /\ pc = "plan" /\ plan.idx < NumModules
    /\ plan.idx = 0 /\ plan.embed_cpu
    /\ device_idx' = [device_idx EXCEPT ![plan.idx] = Host]
    /\ plan' = [plan EXCEPT !.idx = @ + 1]
    /\ UNCHANGED <<pc, device_tensors, cache_map, result>>
    /\ PlanUnchanged

Packing == pc = "plan" /\ plan.idx < NumModules /\ ~(plan.idx = 0 /\ plan.embed_cpu)

\* One turn of the inner loop that does not break: current_idx += 1.
PlanAdvance ==
    /\ Packing
    /\ plan.current_idx < Len(plan.allocation_bytes)
    /\ LET dev_scratch == DevScratch(Scratch(plan.idx), plan.reserve_bytes[plan.current_idx + 1])
       IN ~Fits(Footprint(plan.idx), dev_scratch, plan.allocation_bytes[plan.current_idx + 1])
    /\ plan' = [plan EXCEPT !.current_idx = @ + 1]
    /\ UNCHANGED <<pc, device_idx, device_tensors, cache_map, result>>
    /\ PlanUnchanged

\* The turn of the inner loop that breaks, and lines 181-184.
PlanAssign ==
    /\ Packing
    /\ plan.current_idx < Len(plan.allocation_bytes)
    /\ LET dev_scratch == DevScratch(Scratch(plan.idx), plan.reserve_bytes[plan.current_idx + 1])
       IN /\ Fits(Footprint(plan.idx), dev_scratch, plan.allocation_bytes[plan.current_idx + 1])
          /\ plan' = [plan EXCEPT
                        !.reserve_bytes[plan.current_idx + 1] = dev_scratch,
                        !.allocation_bytes[plan.current_idx + 1] =
                            RemainingAfter(@, Footprint(plan.idx)),
                        !.current_idx = CursorAfterAssign(@),
                        !.idx = @ + 1]
    /\ device_idx' = [device_idx EXCEPT ![plan.idx] = plan.current_idx]
    /\ UNCHANGED <<pc, device_tensors, cache_map, result>>
    /\ PlanUnchanged

\* assert current_idx < len(allocation_bytes) fails: the exception leaves
\* set_device_map (and load, when load called it).
PlanFail ==
    /\ Packing
    /\ ~(plan.current_idx < Len(plan.allocation_bytes))
    /\ pc' = "raised"
    /\ result' = [result EXCEPT !.status = "AllocationExhausted"]
    /\ UNCHANGED <<plan, device_idx, device_tensors, cache_map>>
    /\ PlanUnchanged

\* Lines 188-198, after the loop over the units.
PlanFinish ==
    /\ pc = "plan" /\ plan.idx = NumModules
    /\ device_tensors' = [i \in 1 .. Len(plan.reserve_bytes) |->
                            NewDeviceTensors(i - 1, plan.reserve_bytes[i])]
    /\ cache_map' = SetCacheMap(cache_map, device_idx)
    /\ IF ld.active
       THEN /\ pc' = "load"
            /\ UNCHANGED result
       ELSE /\ pc' = "returned"
            /\ result' = [result EXCEPT !.status = "ok",
                                        !.leftover = Leftover(plan.allocation_bytes)]
    /\ hist' = [hist EXCEPT !.pre_device_idx = <<>>,
                             !.pre_device_tensors = <<>>,
                             !.pre_cache_map = <<>>]
    /\ UNCHANGED <<arena, config, footprint, scratch, modules,
                   last_kv_layer_idx, device_idx, cache, plan, ld, fwd, passes>>

\* ---------------------------------------------------------------- load

\* load(gpu_split, lazy): self.set_device_map(gpu_split or [99999]).  None
\* and the empty list are both false.
SplitOrDefault(given, gpu_split) ==
    IF given /\ gpu_split # <<>> THEN gpu_split ELSE <<DefaultSplit>>

\* load is the first call on a freshly constructed model.
Fresh == \A i \in Idxs : device_idx[i] = None

Load(given, gpu_split, lazy) ==
    /\ pc = "idle" /\ CacheUnused /\ Fresh
    /\ ld' = [active |-> TRUE, given |-> given, gpu_split |-> gpu_split,
              lazy |-> lazy, idx |-> 0]
    /\ EnterPlan(SplitOrDefault(given, gpu_split), TRUE)
    /\ hist' = Snapshot
    /\ result' = [NoResult EXCEPT !.op = "load"]
    /\ UNCHANGED <<arena, config, footprint, scratch, modules,
                   last_kv_layer_idx, device_idx, device_tensors, cache, fwd, passes>>

\* Variant of the lazy test: lazy is ignored.
ShouldLoadAlways(lazy) == TRUE

\* if not lazy:
ShouldLoad(lazy) == ~lazy

\* for module in self.modules: module.load()
LoadModule ==
    /\ pc = "load" /\ ShouldLoad(ld.lazy) /\ ld.idx < NumModules
    /\ ld' = [ld EXCEPT !.idx = @ + 1]
    /\ hist' = [hist EXCEPT !.loads = Append(@, ld.idx)]
    /\ UNCHANGED <<arena, config, footprint, scratch, modules,
                   last_kv_layer_idx, device_idx, device_tensors, cache_map, cache, pc, plan,
                   fwd, result, passes>>

\* self.set_cache_map(); return gpu_split
LoadFinish ==
    /\ pc = "load" /\ (~ShouldLoad(ld.lazy) \/ ld.idx = NumModules)
    /\ cache_map' = SetCacheMap(cache_map, device_idx)
    /\ pc' = "returned"
    /\ result' = [result EXCEPT !.status = "ok"]
    /\ UNCHANGED <<arena, config, footprint, scratch, modules,
                   last_kv_layer_idx, device_idx, device_tensors, cache, plan, ld, fwd,
                   hist, passes>>

\* The caller takes the result (or the exception) and goes on.
Return ==
    /\ pc \in {"returned", "raised"}
    /\ pc' = "idle"
    /\ plan' = NoPlan /\ ld' = NoLoad /\ fwd' = NoForward
    /\ result' = NoResult /\ hist' = NoHist
    /\ UNCHANGED <<arena, config, footprint, scratch, modules,
                   last_kv_layer_idx, device_idx, device_tensors, cache_map, cache, passes>>

\* ----------------------------------------------------- build_attn_mask

\* A tensor is [shape, val]: val maps every index tuple (0-based) of the
\* shape to an entry.
Range(n) == 0 .. (n - 1)

\* torch.zeros(batch_size, 1, seq_len, past_len + seq_len)
Zeros4(d1, d2, d3, d4) ==
    [shape |-> <<d1, d2, d3, d4>>,
     val |-> [p \in Range(d1) \X Range(d2) \X Range(d3) \X Range(d4) |-> 0]]

\* Variant of the triangle below: torch.tril, the entries on and below the
\* diagonal keep v.
TrilFull(n, v) ==
    [shape |-> <<n, n>>,
     val |-> [p \in Range(n) \X Range(n) |-> IF p[2] <= p[1] THEN v ELSE 0]]

\* torch.triu(torch.full((n, n), v)): the entries on and above the diagonal
\* keep v, the entries below it are 0.
TriuFull(n, v) ==
    [shape |-> <<n, n>>,
     val |-> [p \in Range(n) \X Range(n) |-> IF p[2] >= p[1] THEN v ELSE 0]]

\* Variant of the block assignment below: the block starts one column
\* early, at column past_len.
AssignBlockShifted(t, seq_len, past_len, triu) ==
    [t EXCEPT !.val =
        [p \in DOMAIN t.val |->
            IF /\ p[3] < seq_len - 1
               /\ p[4] >= past_len /\ p[4] < past_len + seq_len - 1
            THEN triu.val[<<p[3], p[4] - past_len>>]
            ELSE t.val[p]]]

\* attn_mask[:, :, : seq_len - 1, past_len + 1 : past_len + seq_len] = triu
AssignBlock(t, seq_len, past_len, triu) ==
    [t EXCEPT !.val =
        [p \in DOMAIN t.val |->
            IF /\ p[3] < seq_len - 1
               /\ p[4] >= past_len + 1 /\ p[4] < past_len + seq_len
            THEN triu.val[<<p[3], p[4] - (past_len + 1)>>]
            ELSE t.val[p]]]

\* torch.where(input_mask, 0, -65504.).half().unsqueeze(1).unsqueeze(2)
ConvertInputMask(input_mask) ==
    [shape |-> <<input_mask.shape[1], 1, 1, input_mask.shape[2]>>,
     val |-> [p \in Range(input_mask.shape[1]) \X Range(1) \X Range(1)
                    \X Range(input_mask.shape[2]) |->
                IF input_mask.val[<<p[1], p[4]>>] THEN 0 ELSE NegInf]]

\* Broadcasting of two 4-dimensional shapes, as torch.minimum does it.
Broadcastable(sa, sb) ==
    \A d \in 1 .. 4 : sa[d] = sb[d] \/ sa[d] = 1 \/ sb[d] = 1
BroadcastShape(sa, sb) == [d \in 1 .. 4 |-> Max(sa[d], sb[d])]
At(t, p) == t.val[[d \in 1 .. 4 |-> IF t.shape[d] = 1 THEN 0 ELSE p[d]]]
Min(a, b) == IF a <= b THEN a ELSE b

\* torch.minimum(a, b) for broadcastable a and b.
Minimum(a, b) ==
    LET sh == BroadcastShape(a.shape, b.shape)
    IN [shape |-> sh,
        val |-> [p \in Range(sh[1]) \X Range(sh[2]) \X Range(sh[3]) \X Range(sh[4]) |->
                    Min(At(a, p), At(b, p))]]

\* The causal part of build_attn_mask (lines 248-250).
CausalMask(batch_size, seq_len, past_len) ==
    AssignBlock(Zeros4(batch_size, 1, seq_len, past_len + seq_len),
                seq_len, past_len, TriuFull(seq_len - 1, NegInf))

\* build_attn_mask: [raised, mask]; raised when torch.minimum cannot
\* broadcast its operands, mask = NoTensor for the None of line 259.
BuildAttnMask(batch_size, seq_len, past_len, input_mask) ==
    IF seq_len > 1
    THEN LET attn_mask == CausalMask(batch_size, seq_len, past_len)
         IN IF input_mask # NoTensor
            THEN LET im == ConvertInputMask(input_mask)
                 IN IF Broadcastable(attn_mask.shape, im.shape)
                    THEN [raised |-> FALSE, mask |-> Minimum(attn_mask, im)]
                    ELSE [raised |-> TRUE, mask |-> NoTensor]
            ELSE [raised |-> FALSE, mask |-> attn_mask]
    ELSE [raised |-> FALSE, mask |-> NoTensor]

\* ------------------------------------------------------------- forward

\* Boolean input masks of a given shape.
AllTrue(b, s) ==
    [shape |-> <<b, s>>, val |-> [p \in Range(b) \X Range(s) |-> TRUE]]
PadFirst(b, s) ==
    [shape |-> <<b, s>>, val |-> [p \in Range(b) \X Range(s) |-> p[2] > 0]]

\* The input masks a caller passes with token ids of shape b x s: none, one
\* of the right shape with a padded first position, or one of another shape.
InputMasks(b, s) ==
    {NoTensor, PadFirst(b, s), AllTrue(b, s + 1)}

\* Variants of the cursor update: the cursor is set instead of advanced,
\* and the cursor is advanced although the pass raised.
AdvanceCacheBySetting(c, seq_len) == [c EXCEPT !.current_seq_len = seq_len]
CacheAdvancedOnRaise(c, seq_len) == [c EXCEPT !.current_seq_len = @ + seq_len]

\* The cursor after a completed pass: cache.current_seq_len += seq_len
AdvanceCache(c, seq_len) == [c EXCEPT !.current_seq_len = @ + seq_len]

\* The cursor after a pass that an exception left: lines 300-301 are not
\* reached.
CacheOnRaise(c, seq_len) == c

ForwardUnchanged ==
    UNCHANGED <<arena, config, footprint, scratch, modules,
                last_kv_layer_idx, device_idx, device_tensors, cache_map, plan, ld>>

\* The caller runs forward passes on a model whose planning has completed:
\* every attention layer has its entry in cache_map (a failed plan is
\* discarded and planned again before the model is used).
Planned == DOMAIN cache_map = AttentionLayers

\* Entry of forward with a mask that passes the assert: lines 266-273.
Forward(batch_size, seq_len, use_cache, input_mask, preprocess_only) ==
    /\ pc = "idle" /\ Planned
    /\ use_cache => cache.current_seq_len + seq_len <= MaxCacheLen
    /\ input_mask = NoTensor \/ input_mask.shape = <<batch_size, seq_len>>
    /\ fwd' = [batch_size |-> batch_size, seq_len |-> seq_len,
               use_cache |-> use_cache, input_mask |-> input_mask,
               preprocess_only |-> preprocess_only,
               past_len |-> IF use_cache THEN cache.current_seq_len ELSE 0,
               prev_device |-> <<>>, attn_mask |-> NoTensor, idx |-> 0,
               x |-> "input_ids", broke |-> FALSE]
    /\ pc' = "forward"
    /\ hist' = Snapshot
    /\ result' = [NoResult EXCEPT !.op = "forward"]
    /\ UNCHANGED <<cache, passes>>
    /\ ForwardUnchanged

\* assert input_mask is None or input_mask.shape == input_ids.shape fails.
ForwardReject(batch_size, seq_len, use_cache, input_mask, preprocess_only) ==
    /\ pc = "idle" /\ Planned
    /\ ~(input_mask = NoTensor \/ input_mask.shape = <<batch_size, seq_len>>)
    /\ fwd' = [NoForward EXCEPT !.batch_size = batch_size, !.seq_len = seq_len,
                                !.use_cache = use_cache,
                                !.input_mask = input_mask,
                                !.preprocess_only = preprocess_only]
    /\ pc' = "raised"
    /\ hist' = Snapshot
    /\ result' = [NoResult EXCEPT !.op = "forward", !.status = "ShapeMismatch"]
    /\ cache' = CacheOnRaise(cache, seq_len)
    /\ UNCHANGED passes
    /\ ForwardUnchanged

InLoop == pc = "forward" /\ ~fwd.broke /\ fwd.idx < NumModules

\* Lines 277-284: the device of the unit, and whether a mask is built for it.
UnitDevice == TorchDevice(device_idx[fwd.idx])
\* Variant of the test below: a mask is built for every accelerator unit.
NeedsMaskEveryUnit == UnitDevice # <<"cpu">>
NeedsMask == UnitDevice # fwd.prev_device /\ UnitDevice # <<"cpu">>
BuiltMask ==
    BuildAttnMask(fwd.batch_size, fwd.seq_len, fwd.past_len, fwd.input_mask)
\* History of a turn of the loop that reaches module.forward: the completed
\* build_attn_mask calls with their device and past_len arguments, and for
\* every invoked unit the number of the build whose result it was handed
\* (0: attn_mask was still the None of line 273).
BuildsAfterTurn(built) ==
    IF NeedsMask THEN Append(built, <<UnitDevice, fwd.past_len>>) ELSE built
InvokedAfterTurn(h) ==
    [h EXCEPT !.invoked = Append(@, fwd.idx),
              !.built = BuildsAfterTurn(@),
              !.handed = Append(@, Len(BuildsAfterTurn(h.built)))]

\* One turn of the loop over the units that completes: lines 277-293.
ForwardModule ==
    /\ InLoop
    /\ NeedsMask => ~BuiltMask.raised
    /\ fwd' = [fwd EXCEPT
                 !.prev_device = IF NeedsMask THEN UnitDevice ELSE @,
                 !.attn_mask = IF NeedsMask THEN BuiltMask.mask ELSE @,
                 !.x = IF fwd.preprocess_only /\ fwd.idx = last_kv_layer_idx
                       THEN "none" ELSE "tensor",
                 !.broke = fwd.preprocess_only /\ fwd.idx = last_kv_layer_idx,
                 !.idx = IF fwd.preprocess_only /\ fwd.idx = last_kv_layer_idx
                         THEN @ ELSE @ + 1]
    /\ hist' = InvokedAfterTurn(hist)
    /\ UNCHANGED <<pc, cache, result, passes>>
    /\ ForwardUnchanged

\* A turn of the loop that raises: the mask cannot be built (in_module
\* false), or module.forward fails in the backend (in_module true).  The
\* exception leaves forward at once.
ForwardRaise(in_module) ==
    /\ InLoop
    /\ \/ in_module /\ (NeedsMask => ~BuiltMask.raised)
       \/ ~in_module /\ NeedsMask /\ BuiltMask.raised
    /\ hist' = IF in_module THEN InvokedAfterTurn(hist) ELSE hist
    /\ pc' = "raised"
    /\ result' = [result EXCEPT !.status = IF in_module THEN "BackendFailure"
                                           ELSE "RuntimeError"]
    /\ cache' = CacheOnRaise(cache, fwd.seq_len)
    /\ UNCHANGED <<fwd, passes>>
    /\ ForwardUnchanged

\* Lines 300-303, after the loop or its break.
ForwardFinish ==
    /\ pc = "forward" /\ (fwd.broke \/ fwd.idx = NumModules)
    /\ cache' = IF fwd.use_cache THEN AdvanceCache(cache, fwd.seq_len) ELSE cache
    /\ passes' = IF fwd.use_cache
                 THEN [passes EXCEPT !.total = @ + fwd.seq_len, !.count = @ + 1]
                 ELSE passes
    /\ pc' = "returned"
    /\ result' = [result EXCEPT !.status = "ok", !.x = fwd.x]
    /\ UNCHANGED <<fwd, hist>>
    /\ ForwardUnchanged

\* ------------------------------------------------------ attention mask

\* build_attn_mask as a function of its arguments alone: the arguments are
\* drawn in the initial state and one step applies the function.
MaxMaskBatch == 2
MaxMaskSeqLen == 3
MaxPastLen == 2

AllBoolMasks(b, s) ==
    {[shape |-> <<b, s>>, val |-> v] : v \in [Range(b) \X Range(s) -> BOOLEAN]}

InitMask ==
    /\ config = [num_hidden_layers |-> 1, head_dim |-> 1, max_seq_len |-> 1,
                 hidden_size |-> 1, max_input_len |-> 1, max_batch_size |-> 1]
    /\ footprint = [k \in Kinds |-> 1]
    /\ scratch = [k \in Kinds |-> 0]
    /\ modules = BuildModules(config.num_hidden_layers)
    /\ last_kv_layer_idx = FindLastKV(modules, Len(modules))
    /\ device_idx = [i \in 0 .. (Len(modules) - 1) |-> None]
    /\ device_tensors = <<>>
    /\ cache_map = <<>>
    /\ cache = [current_seq_len |-> 0]
    /\ pc = "mask"
    /\ plan = NoPlan
    /\ ld = NoLoad
    /\ \E b \in 1 .. MaxMaskBatch, s \in 1 .. MaxMaskSeqLen, p \in 0 .. MaxPastLen :
          \E m \in {NoTensor} \cup AllBoolMasks(b, s) :
             fwd = [NoForward EXCEPT !.batch_size = b, !.seq_len = s,
                                     !.past_len = p, !.input_mask = m]
    /\ result = [NoResult EXCEPT !.op = "build_attn_mask"]
    /\ hist = NoHist
    /\ passes = [initial |-> 0, total |-> 0, count |-> 0]
    /\ arena = NoArena

\* The call build_attn_mask(batch_size, seq_len, past_len, input_mask, device).
MaskBuild ==
    /\ pc = "mask"
    /\ pc' = IF BuiltMask.raised THEN "mask_raised" ELSE "mask_done"
    /\ fwd' = [fwd EXCEPT !.attn_mask = BuiltMask.mask]
    /\ result' = [result EXCEPT !.status = IF BuiltMask.raised THEN "RuntimeError"
                                           ELSE "ok"]
    /\ UNCHANGED <<arena, config, footprint, scratch, modules,
                   last_kv_layer_idx, device_idx, device_tensors, cache_map, cache, plan, ld,
                   hist, passes>>

NextMask == MaskBuild

SpecMask == InitMask /\ [][NextMask]_vars

\* ------------------------------------------------ ExLlamaV2DeviceTensors

\* The units call get_device_tensors, begin_scratch_alloc and
\* get_scratch_slice on the resource cache of their device.  A scratch
\* tensor is the number of its half-precision elements.
MaxCalls == 3

\* Variant of the rounding below: rounds down.
RoundDown(size_bytes) == (size_bytes \div 128) * 128

\* size_bytes = ((size_bytes + 127) // 128) * 128
RoundUp(size_bytes) == ((size_bytes + 127) \div 128) * 128

\* size_half = size_bytes // 2
SizeHalf(size_bytes) == RoundUp(size_bytes) \div 2

\* prepare(scratch): the rotary tables are computed, the arena of
\* scratch_bytes // 2 elements is allocated when scratch is true, and ready
\* is set.
Prepare(t, scr) ==
    [t EXCEPT !.scratch = IF scr THEN t.scratch_bytes \div 2 ELSE @,
              !.ready = TRUE]
Prepared(a, d, scr) ==
    [a EXCEPT !.prepares = Append(@, [device |-> d, scratch |-> scr])]

\* scratch.narrow(0, start, length) raises unless the range lies inside the
\* tensor.
NarrowFits(size, start, length) == start + length <= size

ArenaUnchanged ==
    UNCHANGED <<config, footprint, scratch, modules, last_kv_layer_idx,
                device_idx, cache_map, cache, pc, plan, ld, fwd, result,
                hist, passes>>

\* The resource caches exist once a plan has completed.
HasDevice(d) == pc = "idle" /\ Planned /\ d + 1 \in DOMAIN device_tensors
CallsOf(d) == SelectSeq(arena.calls, LAMBDA c : c.device = d)
OtherCalls(d) == SelectSeq(arena.calls, LAMBDA c : c.device # d)

\* get_device_tensors(device_idx, scratch)
GetDeviceTensors(d, scr) ==
    /\ HasDevice(d)
    /\ LET t == device_tensors[d + 1]
       IN /\ device_tensors' =
                [device_tensors EXCEPT ![d + 1] = IF t.ready THEN t
                                                  ELSE Prepare(t, scr)]
          /\ arena' = [(IF t.ready THEN arena ELSE Prepared(arena, d, scr))
                         EXCEPT !.last = [op |-> "get_device_tensors",
                                          device |-> d, before |-> t.scratch_idx]]
    /\ ArenaUnchanged

\* begin_scratch_alloc()
BeginScratchAlloc(d) ==
    /\ HasDevice(d)
    /\ device_tensors' = [device_tensors EXCEPT ![d + 1].scratch_idx = 0]
    /\ arena' = [arena EXCEPT !.calls = OtherCalls(d),
                              !.last = [op |-> "begin_scratch_alloc", device |-> d,
                                        before |-> device_tensors[d + 1].scratch_idx]]
    /\ ArenaUnchanged

\* The instance when get_scratch_slice reaches its narrow call: line 68.
AfterLazyPrepare(t) == IF t.scratch = None THEN Prepare(t, TRUE) ELSE t

\* What a get_scratch_slice call of unit u adds to the history.
SliceCall(d, u, size_bytes, served) ==
    LET t == device_tensors[d + 1]
        called == IF t.scratch = None THEN Prepared(arena, d, TRUE) ELSE arena
    IN [called EXCEPT
          !.calls = Append(@, [device |-> d, unit |-> u, size_bytes |-> size_bytes,
                               lazy |-> t.scratch = None,
                               before |-> t.scratch_idx,
                               start |-> AfterLazyPrepare(t).scratch_idx,
                               len |-> SizeHalf(size_bytes),
                               served |-> served]),
          !.last = [op |-> "get_scratch_slice", device |-> d,
                    before |-> t.scratch_idx]]

\* get_scratch_slice(size_bytes), called by unit u, returning the slice.
GetScratchSlice(d, u, size_bytes) ==
    /\ HasDevice(d) /\ device_idx[u] = d
    /\ Len(CallsOf(d)) < MaxCalls
    /\ LET t == AfterLazyPrepare(device_tensors[d + 1])
       IN /\ NarrowFits(t.scratch, t.scratch_idx, SizeHalf(size_bytes))
          /\ device_tensors' =
                [device_tensors EXCEPT
                    ![d + 1] = [t EXCEPT !.scratch_idx = @ + SizeHalf(size_bytes)]]
    /\ arena' = SliceCall(d, u, size_bytes, TRUE)
    /\ ArenaUnchanged

\* get_scratch_slice(size_bytes) leaving by the exception of narrow: the
\* cursor is not advanced.
GetScratchSliceRaise(d, u, size_bytes) ==
    /\ HasDevice(d) /\ device_idx[u] = d
    /\ Len(CallsOf(d)) < MaxCalls
    /\ LET t == AfterLazyPrepare(device_tensors[d + 1])
       IN /\ ~NarrowFits(t.scratch, t.scratch_idx, SizeHalf(size_bytes))
          /\ device_tensors' = [device_tensors EXCEPT ![d + 1] = t]
    /\ arena' = SliceCall(d, u, size_bytes, FALSE)
    /\ ArenaUnchanged

\* Scratch requirements in bytes the units may report, and the sizes they
\* ask slices of.
ArenaProfiles ==
    {[k \in Kinds |-> CASE k = "Attention" -> a
                        [] k \in {"MLP", "Linear"} -> m
                        [] OTHER -> 0] : a \in {130, 256}, m \in {128, 512}}
RequestSizes == {128, 130}
ArenaDevices == 0 .. (Len(device_tensors) - 1)

\* A freshly constructed model of one layer; load() with the default split
\* puts every unit but the embedding on device 0.
InitScratch ==
    /\ config = [num_hidden_layers |-> 1, head_dim |-> 1, max_seq_len |-> 1,
                 hidden_size |-> 1, max_input_len |-> 1, max_batch_size |-> 1]
    /\ footprint = [k \in Kinds |-> 1]
    /\ scratch \in ArenaProfiles
    /\ modules = BuildModules(config.num_hidden_layers)
    /\ last_kv_layer_idx = FindLastKV(modules, Len(modules))
    /\ device_idx = [i \in 0 .. (Len(modules) - 1) |-> None]
    /\ device_tensors = <<>>
    /\ cache_map = <<>>
    /\ cache = [current_seq_len |-> 0]
    /\ pc = "idle"
    /\ plan = NoPlan
    /\ ld = NoLoad
    /\ fwd = NoForward
    /\ result = NoResult
    /\ hist = NoHist
    /\ passes = [initial |-> 0, total |-> 0, count |-> 0]
    /\ arena = NoArena

NextScratch ==
    \/ \E l \in BOOLEAN : Load(FALSE, <<>>, l)
    \/ PlanEmbedCpu
    \/ PlanAssign
    \/ PlanFinish
    \/ LoadModule
    \/ LoadFinish
    \/ Return
    \/ \E d \in ArenaDevices, scr \in BOOLEAN : GetDeviceTensors(d, scr)
    \/ \E d \in ArenaDevices : BeginScratchAlloc(d)
    \/ \E d \in ArenaDevices, u \in Idxs, size_bytes \in RequestSizes :
          GetScratchSlice(d, u, size_bytes)
    \/ \E d \in ArenaDevices, u \in Idxs, size_bytes \in RequestSizes :
          GetScratchSliceRaise(d, u, size_bytes)

SpecScratch == InitScratch /\ [][NextScratch]_vars

Next ==
    \/ \E a \in Allocations, e \in BOOLEAN : SetDeviceMap(a, e)
    \/ PlanEmbedCpu
    \/ PlanAdvance
    \/ PlanAssign
    \/ PlanFail
    \/ PlanFinish
    \/ \E g \in BOOLEAN, a \in Allocations, l \in BOOLEAN :
          (g \/ a = <<>>) /\ Load(g, a, l)
    \/ LoadModule
    \/ LoadFinish
    \/ \E s \in 1 .. MaxSeqLen, c \in BOOLEAN, po \in BOOLEAN :
          \E m \in InputMasks(1, s) :
             \/ Forward(1, s, c, m, po)
             \/ ForwardReject(1, s, c, m, po)
    \/ ForwardModule
    \/ \E in_module \in BOOLEAN : ForwardRaise(in_module)
    \/ ForwardFinish
    \/ Return

Spec == Init /\ [][Next]_vars


\* -------------------------------------------------------------- claims

\* set_device_map has returned normally, to its caller or into load.
PlanReturned ==
    \/ pc = "returned" /\ result.op = "set_device_map"
    \/ pc = "load"
\* A planning call has ended with the allocation-exhausted assertion.
PlanFailed ==
    /\ pc = "raised" /\ result.status = "AllocationExhausted"

Devices == 0 .. (Len(plan.allocation) - 1)
UnitsOn(d) == {i \in Idxs : device_idx[i] = d}
RECURSIVE SumFootprint(_)
SumFootprint(S) ==
    IF S = {} THEN 0
    ELSE LET i == CHOOSE j \in S : TRUE IN Footprint(i) + SumFootprint(S \ {i})
RECURSIVE MaxScratchOf(_)
MaxScratchOf(S) ==
    IF S = {} THEN 0
    ELSE LET i == CHOOSE j \in S : TRUE IN Max(Scratch(i), MaxScratchOf(S \ {i}))
RECURSIVE SumSeq(_)
SumSeq(q) == IF q = <<>> THEN 0 ELSE Head(q) + SumSeq(Tail(q))
Reserved == ConstantSize + StateSize + MaskSize
BudgetBytes(d) == plan.allocation[d + 1] * GiB

\* C1: after set_device_map returns, every device that holds a unit has
\* reserved constants + the footprints of its units + the largest scratch
\* requirement of its units within its budget, and every unit is on exactly
\* one device (the host or a device of the list).
C1_BudgetRespected ==
    PlanReturned =>
        /\ \A d \in Devices :
              UnitsOn(d) # {} =>
                 Reserved + SumFootprint(UnitsOn(d)) + MaxScratchOf(UnitsOn(d))
                    <= BudgetBytes(d)
        /\ \A i \in Idxs : device_idx[i] \in {Host} \cup Devices

\* A plan over two devices that both hold units, one of them filled to the
\* last byte by footprints and scratch.
C1_Witness ==
    /\ PlanReturned
    /\ Len(plan.allocation) = 2
    /\ UnitsOn(0) # {} /\ UnitsOn(1) # {}
    /\ \E d \in Devices :
          /\ MaxScratchOf(UnitsOn(d)) > 0
          /\ Reserved + SumFootprint(UnitsOn(d)) + MaxScratchOf(UnitsOn(d))
                = BudgetBytes(d)

\* The placement is non-decreasing along the module sequence.
PlacementMonotone ==
    PlanReturned =>
        \A i \in Idxs : i + 1 \in Idxs => device_idx[i] <= device_idx[i + 1]
\* A step of a plan does not move the cursor back.
CursorStep ==
    (pc = "plan" /\ pc' = "plan") => plan'.current_idx >= plan.current_idx

\* C2: after set_device_map returns the device indices are non-decreasing
\* along the module sequence (host = -1), and the cursor never decreases
\* while a plan is being made.
C2_Monotone == []PlacementMonotone /\ [][CursorStep]_vars

\* A plan that moved the cursor and still placed a unit after the move.
C2_Witness ==
    /\ PlanReturned
    /\ \E i \in Idxs : i + 1 \in Idxs /\ 0 <= device_idx[i]
                       /\ device_idx[i] < device_idx[i + 1]

\* A single device whose budget covers the footprints of all units and the
\* reserved constants (AmpleForWeights), and the largest scratch
\* requirement as well (AmpleForAll).
TotalFootprint == SumFootprint(Idxs)
SingleDevice == Len(plan.allocation) = 1 /\ result.op \in {"set_device_map", "load"}
AmpleForWeights == SingleDevice /\ BudgetBytes(0) >= TotalFootprint + Reserved
AmpleForAll ==
    SingleDevice /\ BudgetBytes(0) >= TotalFootprint + Reserved + MaxScratchOf(Idxs)

\* C3 as stated: with a single device whose budget is at least the total
\* footprint plus the reserved constants, planning succeeds with every unit
\* on device 0 and a leftover >= 0.
C3_AsStated ==
    AmpleForWeights =>
        /\ ~PlanFailed
        /\ PlanReturned =>
              /\ \A i \in Idxs : device_idx[i] = 0
              /\ plan.allocation_bytes[1] >= 0

\* C3 amended: with a single device whose budget is at least the total
\* footprint plus the reserved constants plus the largest scratch requirement
\* of any unit, planning succeeds, every unit is on device 0 except the
\* embedding, which is on the host when embed-on-host is set, and the
\* leftover is >= 0.
C3_SingleDevice ==
    AmpleForAll =>
        /\ ~PlanFailed
        /\ PlanReturned =>
              /\ \A i \in Idxs :
                    device_idx[i] = IF i = 0 /\ plan.embed_cpu THEN Host ELSE 0
              /\ plan.allocation_bytes[1] >= 0
              /\ (pc = "returned" /\ result.op = "set_device_map") =>
                    /\ Len(result.leftover) = 1
                    /\ result.leftover[1].num >= 0
                    /\ result.leftover[1].den > 0

\* A successful plan on one device that the footprints and the scratch fill
\* exactly, with the embedding packed like the other units.
C3_Witness ==
    /\ AmpleForAll /\ pc = "returned" /\ result.op = "set_device_map"
    /\ ~plan.embed_cpu
    /\ BudgetBytes(0) = TotalFootprint + Reserved + MaxScratchOf(Idxs)
    /\ \A i \in Idxs : device_idx[i] = 0

SumBudgetBytes == SumSeq(plan.allocation) * GiB
\* The units the packing loop places on devices.
PackedUnits == IF plan.embed_cpu THEN Idxs \ {0} ELSE Idxs
Planning == result.op \in {"set_device_map", "load"} /\ pc \in {"plan", "load", "returned", "raised"}

\* C4 as stated: when the budgets sum to less than the total footprint of
\* all units, set_device_map never returns normally.
C4_AsStated ==
    (Planning /\ SumBudgetBytes < TotalFootprint) => ~PlanReturned

\* C4 amended: when the budgets sum to less than the total footprint of the
\* units the planner packs (all units, or all but the embedding when
\* embed-on-host is set), set_device_map never returns normally: the loop
\* over the units is never completed and the call ends with the
\* allocation-exhausted assertion.
C4_Insufficient ==
    (Planning /\ SumBudgetBytes < SumFootprint(PackedUnits)) =>
        /\ ~PlanReturned
        /\ pc = "plan" => plan.idx < NumModules
        /\ pc = "raised" => result.status = "AllocationExhausted"

\* A plan with embed-on-host that failed after it had placed units, over
\* budgets summing to less than the packed footprint.
C4_Witness ==
    /\ PlanFailed /\ plan.embed_cpu
    /\ SumBudgetBytes < SumFootprint(PackedUnits)
    /\ \E i \in Idxs : device_idx[i] >= 0

\* C5: a set_device_map that fails leaves device_idx, device_tensors and
\* cache_map as they were before the call.
C5_NoPartialAssignment ==
    PlanFailed =>
        /\ device_idx = hist.pre_device_idx
        /\ device_tensors = hist.pre_device_tensors
        /\ cache_map = hist.pre_cache_map

\* C6: in load, no unit is loaded before planning has completed for all
\* units; a load whose planning fails has loaded no unit and run no forward
\* compute; a lazy load loads no unit.
C6_LoadOrder ==
    result.op = "load" =>
        /\ pc = "plan" => hist.loads = <<>>
        /\ hist.loads # <<>> =>
              /\ plan.idx = NumModules
              /\ \A i \in Idxs : device_idx[i] # None
              /\ Len(device_tensors) = Len(plan.allocation)
        /\ pc = "raised" => hist.loads = <<>> /\ hist.invoked = <<>>
        /\ ld.lazy => hist.loads = <<>>

\* An eager load that has loaded every unit after its plan.
C6_Witness ==
    /\ result.op = "load" /\ pc = "returned" /\ ~ld.lazy
    /\ hist.loads = [k \in 1 .. NumModules |-> k - 1]

\* C7: the cursor of the cache is its initial value plus the sequence
\* lengths of the passes completed against it; a pass reads past_len from
\* the cursor the earlier passes left; a pass without a cache leaves the
\* cursor alone and uses past_len 0.
C7_CursorSum ==
    /\ cache.current_seq_len = passes.initial + passes.total
    /\ (pc = "forward" /\ fwd.use_cache) =>
          fwd.past_len = passes.initial + passes.total
    /\ (result.op = "forward" /\ ~fwd.use_cache) =>
          /\ cache.current_seq_len = hist.pre_seq_len
          /\ fwd.past_len = 0

\* Two passes of different lengths completed against the cache.
C7_Witness ==
    /\ pc = "returned" /\ result.op = "forward" /\ fwd.use_cache
    /\ passes.count = 2 /\ passes.total = 3
    /\ fwd.past_len > 0

\* The index of the last attention unit of the module sequence.
LastAttention ==
    CHOOSE i \in Idxs :
        /\ Mod(i).kind = "Attention"
        /\ \A j \in Idxs : j > i => Mod(j).kind # "Attention"

\* C8: a pass with preprocess_only invokes the units 0..last attention unit
\* in order and no other, never the final normalization or the output
\* projection, returns no tensor and advances the cursor of a supplied
\* cache by seq_len.
C8_PreprocessOnly ==
    (result.op = "forward" /\ fwd.preprocess_only) =>
        /\ \A k \in 1 .. Len(hist.invoked) :
              /\ hist.invoked[k] = k - 1
              /\ Mod(hist.invoked[k]).kind \notin {"RMSNorm", "Linear"}
        /\ pc = "returned" =>
              /\ hist.invoked = [k \in 1 .. LastAttention + 1 |-> k - 1]
              /\ last_kv_layer_idx = LastAttention
              /\ result.x = "none"
              /\ cache.current_seq_len =
                    hist.pre_seq_len + (IF fwd.use_cache THEN fwd.seq_len ELSE 0)

\* A completed preprocess_only pass with a cache over more than one layer.
C8_Witness ==
    /\ pc = "returned" /\ result.op = "forward" /\ fwd.preprocess_only
    /\ fwd.use_cache /\ config.num_hidden_layers > 1
    /\ cache.current_seq_len = hist.pre_seq_len + fwd.seq_len

\* C9: a pass that does not complete leaves the cursor unchanged; a pass
\* rejected for the shape of its input mask has invoked no unit and built no
\* mask.
C9_NoAdvanceOnError ==
    (pc = "raised" /\ result.op = "forward") =>
        /\ cache.current_seq_len = hist.pre_seq_len
        /\ cache.current_seq_len = passes.initial + passes.total
        /\ result.status = "ShapeMismatch" =>
              /\ hist.invoked = <<>>
              /\ fwd.prev_device = <<>> /\ fwd.attn_mask = NoTensor

\* A pass with a cache that raised in a unit after other units had run.
C9_Witness ==
    /\ pc = "raised" /\ result.op = "forward" /\ fwd.use_cache
    /\ result.status = "BackendFailure" /\ Len(hist.invoked) >= 2
    /\ cache.current_seq_len > 0

\* The triangular block of the mask: query rows and block columns 0..seq_len-2.
Block == Range(fwd.seq_len - 1)
MaskCase == pc = "mask_done" /\ fwd.seq_len > 1 /\ fwd.input_mask = NoTensor
MaskShapeOK ==
    fwd.attn_mask.shape =
        <<fwd.batch_size, 1, fwd.seq_len, fwd.past_len + fwd.seq_len>>
InBlock(p) ==
    /\ p[3] \in Block
    /\ p[4] - (fwd.past_len + 1) \in Block

\* C10 as stated: inside the block the entry at column past_len + 1 + j of
\* row i is -65504 exactly when j < i; every other entry is 0.
C10_AsStated ==
    MaskCase =>
        /\ MaskShapeOK
        /\ \A p \in DOMAIN fwd.attn_mask.val :
              IF InBlock(p)
              THEN (fwd.attn_mask.val[p] = NegInf) <=> (p[4] - (fwd.past_len + 1) < p[3])
              ELSE fwd.attn_mask.val[p] = 0

\* C10 amended: for seq_len > 1 and no input mask the mask has shape
\* batch x 1 x seq_len x (past_len + seq_len); inside the block the entry
\* at column past_len + 1 + j of row i is -65504 exactly when j >= i, and 0
\* otherwise; every entry outside the block is 0.
C10_Triangle ==
    MaskCase =>
        /\ MaskShapeOK
        /\ DOMAIN fwd.attn_mask.val =
              Range(fwd.batch_size) \X Range(1) \X Range(fwd.seq_len)
                 \X Range(fwd.past_len + fwd.seq_len)
        /\ \A p \in DOMAIN fwd.attn_mask.val :
              IF InBlock(p)
              THEN /\ (fwd.attn_mask.val[p] = NegInf) <=> (p[4] - (fwd.past_len + 1) >= p[3])
                   /\ fwd.attn_mask.val[p] \in {0, NegInf}
              ELSE fwd.attn_mask.val[p] = 0

\* A mask built over a non-empty past for three new tokens and two rows.
C10_Witness ==
    /\ MaskCase /\ fwd.seq_len = 3 /\ fwd.past_len > 0 /\ fwd.batch_size = 2
    /\ fwd.attn_mask.val[<<1, 0, 0, fwd.past_len + 1>>] = NegInf
    /\ fwd.attn_mask.val[<<1, 0, 1, fwd.past_len + 1>>] = 0


\* C11: the mask built for seq_len > 1 without an input mask is causal:
\* for every batch b, query row i and key column k the entry
\* mask[b, 0, i, k] is 0 when k <= past_len + i and -65504 when
\* k > past_len + i; the last query row and the past_len cached columns
\* are entirely 0.
C11_Causal ==
    MaskCase =>
        /\ MaskShapeOK
        /\ \A b \in Range(fwd.batch_size), i \in Range(fwd.seq_len),
              k \in Range(fwd.past_len + fwd.seq_len) :
              fwd.attn_mask.val[<<b, 0, i, k>>] =
                 IF k <= fwd.past_len + i THEN 0 ELSE NegInf
        /\ \A b \in Range(fwd.batch_size), k \in Range(fwd.past_len + fwd.seq_len) :
              fwd.attn_mask.val[<<b, 0, fwd.seq_len - 1, k>>] = 0
        /\ \A b \in Range(fwd.batch_size), i \in Range(fwd.seq_len),
              k \in Range(fwd.past_len) :
              fwd.attn_mask.val[<<b, 0, i, k>>] = 0

\* A mask over two cached positions and three new tokens: the first query
\* sees its own position and not the next one.
C11_Witness ==
    /\ MaskCase /\ fwd.seq_len = 3 /\ fwd.past_len = 2
    /\ fwd.attn_mask.val[<<0, 0, 0, 2>>] = 0
    /\ fwd.attn_mask.val[<<0, 0, 0, 3>>] = NegInf
    /\ fwd.attn_mask.val[<<0, 0, 1, 3>>] = 0
    /\ fwd.attn_mask.val[<<0, 0, 1, 4>>] = NegInf

\* A call of build_attn_mask with seq_len > 1 and a boolean input mask of
\* the token-id shape batch x seq_len.
MergeCase ==
    /\ pc \in {"mask_done", "mask_raised"}
    /\ fwd.seq_len > 1
    /\ fwd.input_mask # NoTensor
    /\ fwd.input_mask.shape = <<fwd.batch_size, fwd.seq_len>>

\* C12: for seq_len > 1, every past_len >= 0 and every boolean input mask
\* of shape batch x seq_len, build_attn_mask succeeds and returns a bias of
\* shape batch x 1 x seq_len x (past_len + seq_len) whose entry is -65504
\* iff the causal mask blocks it or the input mask is false for that key
\* position, and 0 otherwise.
C12_InputMaskMerged ==
    MergeCase =>
        /\ pc = "mask_done"
        /\ MaskShapeOK
        /\ \A b \in Range(fwd.batch_size), i \in Range(fwd.seq_len),
              k \in Range(fwd.past_len + fwd.seq_len) :
              fwd.attn_mask.val[<<b, 0, i, k>>] =
                 IF \/ k > fwd.past_len + i
                    \/ /\ k \in Range(fwd.seq_len)
                       /\ ~fwd.input_mask.val[<<b, k>>]
                 THEN NegInf ELSE 0

\* The unit invoked last in the running pass sits on an accelerator, so the
\* mask of the pass was handed to it.
HandedMask ==
    /\ pc = "forward" /\ hist.invoked # <<>>
    /\ device_idx[hist.invoked[Len(hist.invoked)]] >= 0

\* C13: in a forward pass with seq_len = 1 no causal mask is built (without
\* an input mask the units get no mask), and a supplied input mask still
\* applies: the mask handed to the units is -65504 at the positions the
\* input mask marks false.
C13_InputMaskApplies ==
    (HandedMask /\ fwd.seq_len = 1) =>
        IF fwd.input_mask = NoTensor
        THEN fwd.attn_mask = NoTensor
        ELSE /\ fwd.attn_mask # NoTensor
             /\ \A b \in Range(fwd.batch_size), k \in Range(fwd.seq_len) :
                   ~fwd.input_mask.val[<<b, k>>] =>
                       fwd.attn_mask.val[<<b, 0, 0, fwd.past_len + k>>] = NegInf

\* The kinds of the module sequence, in order.
ModuleKinds == [i \in 1 .. Len(modules) |-> modules[i].kind]
TwoLayers == config.num_hidden_layers = 2

\* C15 as stated: for num_hidden_layers = 2 the module sequence holds
\* exactly 6 top-level units.
C15_AsStated == TwoLayers => Len(modules) = 6

\* C15 amended: for num_hidden_layers = 2 the module sequence holds exactly
\* 7 top-level units: the embedding, the attention and the feed-forward
\* unit of layer 0, those of layer 1, the final normalization and the
\* output projection, in that order.
C15_SevenUnits ==
    TwoLayers =>
        /\ Len(modules) = 7
        /\ ModuleKinds = <<"Embedding", "Attention", "MLP", "Attention", "MLP",
                           "RMSNorm", "Linear">>
        /\ \A i \in 2 .. 5 : modules[i].layer_idx = (i - 2) \div 2

\* A model built from a configuration with two hidden layers, planned and
\* loaded.
C15_Witness ==
    /\ TwoLayers /\ Len(modules) = 7
    /\ pc = "returned" /\ result.op = "load" /\ result.status = "ok"

\* The units the packing loop of the running plan has placed so far, and
\* what they leave of a device: computed from the placement alone.
Placed == {i \in PackedUnits : i < plan.idx}
PlacedOn(d) == {i \in Placed : device_idx[i] = d}
RemainingOf(d) == BudgetBytes(d) - Reserved - SumFootprint(PlacedOn(d))
ReservedScratchOf(d) == MaxScratchOf(PlacedOn(d))
FitsOn(i, d) ==
    Footprint(i) + Max(Scratch(i), ReservedScratchOf(d)) <= RemainingOf(d)
\* The cursor position the previous packed unit left.
CursorLeft ==
    IF Placed = {} THEN 0
    ELSE device_idx[CHOOSE i \in Placed : \A j \in Placed : j <= i]

\* A step that places a packed unit: the unit goes to the lowest device at
\* or after the cursor left by the previous unit on which it fits.
AssignStep ==
    (Packing /\ plan'.idx = plan.idx + 1) =>
        LET d == device_idx'[plan.idx]
        IN /\ d \in Devices /\ d >= CursorLeft
           /\ FitsOn(plan.idx, d)
           /\ \A e \in CursorLeft .. (d - 1) : ~FitsOn(plan.idx, e)
           /\ plan'.current_idx = d
\* A step that moves the cursor: by one device, and only past a device the
\* unit does not fit on.
AdvanceStep ==
    (pc = "plan" /\ plan'.current_idx # plan.current_idx) =>
        /\ Packing
        /\ plan'.current_idx = plan.current_idx + 1
        /\ plan'.idx = plan.idx
        /\ ~FitsOn(plan.idx, plan.current_idx)
        /\ device_idx' = device_idx
\* The step of the embedding with embed-on-host set: device -1 and no
\* budget consumed.
EmbedStep ==
    (pc = "plan" /\ plan.idx = 0 /\ plan.embed_cpu /\ plan'.idx = 1) =>
        /\ device_idx'[0] = Host
        /\ plan'.allocation_bytes = plan.allocation_bytes
        /\ plan'.reserve_bytes = plan.reserve_bytes
        /\ plan'.current_idx = plan.current_idx
\* No placed unit sits on a device before the device of an earlier placed
\* unit or after the cursor: a device the cursor has passed gets no unit.
NoUnitOnSkipped ==
    (pc = "plan" \/ PlanReturned \/ PlanFailed) =>
        /\ \A i \in Placed, j \in Placed : i < j => device_idx[i] <= device_idx[j]
        /\ \A i \in Placed : device_idx[i] <= plan.current_idx
        /\ plan.current_idx >= CursorLeft
        /\ plan.embed_cpu /\ plan.idx > 0 => device_idx[0] = Host

\* C16: the planner is first-fit-advancing: each packed unit is assigned
\* to the lowest device d >= the cursor left by the previous unit with
\* footprint + max(own scratch, reserved scratch of d) <= remaining bytes
\* of d; the cursor moves past a device only when the unit does not fit on
\* it, and a device the cursor has passed receives no later unit.  With
\* embed-on-host the embedding gets device -1 and consumes no budget;
\* without it the embedding is packed like every other unit.
C16_FirstFit ==
    /\ []NoUnitOnSkipped
    /\ [][AssignStep /\ AdvanceStep /\ EmbedStep]_vars

\* A finished plan with the embedding on the host in which a unit sits on
\* device 1 although device 0, which the cursor had passed, has room for it.
C16_Witness ==
    /\ PlanReturned /\ plan.embed_cpu /\ Len(plan.allocation) = 2
    /\ device_idx[0] = Host
    /\ PlacedOn(0) # {}
    /\ \E j \in PlacedOn(1) :
          Footprint(j) + Max(Scratch(j), ReservedScratchOf(0)) <= RemainingOf(0)

\* A step of a running plan does not raise the remaining bytes of a device.
RemainingStep ==
    (pc = "plan" /\ plan'.allocation = plan.allocation) =>
        \A d \in Devices :
            plan'.allocation_bytes[d + 1] <= plan.allocation_bytes[d + 1]
\* While a plan runs and after it: a device that holds a unit keeps at
\* least its reserved scratch, and the reserved scratch is the largest
\* scratch requirement of the units on the device.
ReservedIsMax ==
    (pc = "plan" \/ PlanReturned \/ PlanFailed) =>
        \A d \in Devices :
            /\ PlacedOn(d) # {} =>
                  plan.allocation_bytes[d + 1] >= plan.reserve_bytes[d + 1]
            /\ plan.reserve_bytes[d + 1] = MaxScratchOf(PlacedOn(d))
            /\ plan.allocation_bytes[d + 1] = RemainingOf(d)
\* After the plan: one resource cache per device with the reserved scratch
\* as scratch_bytes, and the leftover the call returns.
PlanOutputs ==
    PlanReturned =>
        /\ Len(device_tensors) = Len(plan.allocation)
        /\ \A d \in Devices :
              /\ device_tensors[d + 1].device_idx = d
              /\ device_tensors[d + 1].scratch_bytes = MaxScratchOf(PlacedOn(d))
              /\ pc = "returned" =>
                    /\ result.leftover[d + 1].num =
                          BudgetBytes(d) - Reserved - SumFootprint(PlacedOn(d))
                    /\ result.leftover[d + 1].den = GiB
        /\ pc = "returned" => Len(result.leftover) = Len(plan.allocation)

\* C17: throughout planning the remaining bytes of every device never
\* increase and, once the device holds a unit, stay >= its reserved
\* scratch; the reserved scratch of a device is the maximum (not the sum)
\* of scratch_space over its units, 0 without a unit; device_tensors[d] is
\* created with that value as scratch_bytes; the returned leftover of d is
\* its budget minus the reserved constants minus the footprints of its
\* units, scratch not subtracted.
C17_Ledger ==
    /\ [](ReservedIsMax /\ PlanOutputs)
    /\ [][RemainingStep]_vars

\* A returned plan over two devices: the first holds two units with
\* different positive scratch requirements, the second holds none.
C17_Witness ==
    /\ pc = "returned" /\ result.op = "set_device_map"
    /\ Len(plan.allocation) = 2
    /\ PlacedOn(1) = {} /\ device_tensors[2].scratch_bytes = 0
    /\ \E i \in PlacedOn(0), j \in PlacedOn(0) : Scratch(i) > Scratch(j) /\ Scratch(j) > 0
    /\ result.leftover[1].num < BudgetBytes(0) - Reserved - MaxScratchOf(PlacedOn(0))

\* A forward pass with seq_len > 1, running or ended.
LongPass ==
    /\ result.op = "forward" /\ pc \in {"forward", "returned", "raised"}
    /\ fwd.seq_len > 1
InvokedDevice(k) == device_idx[hist.invoked[k]]

\* C19: in a forward pass with seq_len > 1 over a planned placement the
\* units are invoked in module-sequence order on devices of non-decreasing
\* index; every unit on an accelerator is invoked with the mask of a build
\* made for its own device with the past_len of the pass; there is exactly
\* one build per accelerator device visited, and none for the host.
C19_MaskPerDevice ==
    LongPass =>
        /\ \A k \in 1 .. Len(hist.invoked) : hist.invoked[k] = k - 1
        /\ \A k \in 1 .. (Len(hist.invoked) - 1) :
              InvokedDevice(k) <= InvokedDevice(k + 1)
        /\ Len(hist.handed) = Len(hist.invoked)
        /\ \A k \in 1 .. Len(hist.invoked) :
              InvokedDevice(k) >= 0 =>
                 /\ hist.handed[k] \in 1 .. Len(hist.built)
                 /\ hist.built[hist.handed[k]] =
                       <<TorchDevice(InvokedDevice(k)), fwd.past_len>>
        /\ \A a \in 1 .. Len(hist.built), b \in 1 .. Len(hist.built) :
              a # b => hist.built[a][1] # hist.built[b][1]
        /\ {hist.built[a][1] : a \in 1 .. Len(hist.built)} =
              {TorchDevice(InvokedDevice(k)) :
                  k \in {j \in 1 .. Len(hist.invoked) : InvokedDevice(j) >= 0}}
        /\ \A k \in 1 .. Len(hist.invoked) :
              InvokedDevice(k) = Host =>
                 hist.handed[k] = IF k = 1 THEN 0 ELSE hist.handed[k - 1]

\* A completed pass over a non-empty cache with the embedding on the host
\* and units on two accelerators, the second with several units: two
\* builds.
C19_Witness ==
    /\ LongPass /\ pc = "returned" /\ fwd.past_len > 0
    /\ device_idx[0] = Host
    /\ Len(hist.invoked) = NumModules
    /\ hist.built = <<<<TorchDevice(0), fwd.past_len>>, <<TorchDevice(1), fwd.past_len>>>>
    /\ UnitsOn(0) # {} /\ Cardinality(UnitsOn(1)) >= 2

\* The get_scratch_slice calls made on device d since its last reset, the
\* cursor after the k-th of them, and the smallest multiple of 128 that is
\* at least n.
CursorAfter(d, k) ==
    IF k < Len(CallsOf(d)) THEN CallsOf(d)[k + 1].before
    ELSE device_tensors[d + 1].scratch_idx
NextMultiple(n) ==
    CHOOSE m \in {128 * q : q \in 0 .. (n \div 128 + 1)} : m >= n /\ m - n < 128
\* The cursor scratch_idx counts half-precision elements of two bytes.
Bytes(halves) == 2 * halves
Overlap(a, b) == a.start < b.start + b.len /\ b.start < a.start + a.len

\* C14: every get_scratch_slice(size_bytes) that returns advances the bump
\* cursor by size_bytes rounded up to a multiple of 128 bytes (a request of
\* 130 bytes advances it by 256 bytes) and returns the region that starts
\* at the cursor value before the call; the regions returned between two
\* begin_scratch_alloc calls are pairwise disjoint, and begin_scratch_alloc
\* resets the cursor to 0.
C14_ScratchSlices ==
    \A d \in ArenaDevices :
       /\ \A k \in 1 .. Len(CallsOf(d)) :
             CallsOf(d)[k].served =>
                /\ Bytes(CursorAfter(d, k) - CallsOf(d)[k].before) =
                      NextMultiple(CallsOf(d)[k].size_bytes)
                /\ CallsOf(d)[k].size_bytes = 130 =>
                      Bytes(CursorAfter(d, k) - CallsOf(d)[k].before) = 256
                /\ CallsOf(d)[k].start = CallsOf(d)[k].before
                /\ Bytes(CallsOf(d)[k].len) = NextMultiple(CallsOf(d)[k].size_bytes)
       /\ \A j \in 1 .. Len(CallsOf(d)), k \in 1 .. Len(CallsOf(d)) :
             (j # k /\ CallsOf(d)[j].served /\ CallsOf(d)[k].served) =>
                ~Overlap(CallsOf(d)[j], CallsOf(d)[k])
       /\ (arena.last.op = "begin_scratch_alloc" /\ arena.last.device = d) =>
             device_tensors[d + 1].scratch_idx = 0

\* Three slices served in one cycle, the first of 130 bytes: they fill the
\* 512 bytes of the arena.
C14_Witness ==
    /\ ArenaDevices = {0} /\ Len(CallsOf(0)) = 3
    /\ \A k \in 1 .. 3 : CallsOf(0)[k].served
    /\ CallsOf(0)[1].size_bytes = 130 /\ CallsOf(0)[2].start = 128
    /\ Bytes(device_tensors[1].scratch_idx) = 512

\* The prepare calls made on device d.
Prepares(d) == SelectSeq(arena.prepares, LAMBDA c : c.device = d)
ArenaAllocs(d) == SelectSeq(Prepares(d), LAMBDA c : c.scratch)

\* C18: whatever get_device_tensors, get_scratch_slice and
\* begin_scratch_alloc calls are made on a resource cache, its rotary
\* tables are computed at most once and its arena is allocated at most
\* once: prepare runs at most once; a slice requested before the arena
\* exists is served by lazy preparation.
C18_PreparedOnce ==
    \A d \in ArenaDevices :
       /\ Len(Prepares(d)) <= 1
       /\ Len(ArenaAllocs(d)) <= 1
       /\ \A k \in 1 .. Len(CallsOf(d)) :
             (CallsOf(d)[k].lazy /\ Bytes(CallsOf(d)[k].len) <= device_tensors[d + 1].scratch_bytes)
                => CallsOf(d)[k].served

\* The bytes unit u has asked for on device d since the last reset.
RECURSIVE SumSizes(_)
SumSizes(cs) == IF cs = <<>> THEN 0 ELSE Head(cs).size_bytes + SumSizes(Tail(cs))
Requested(d, u) == SumSizes(SelectSeq(CallsOf(d), LAMBDA c : c.unit = u))
\* One reset cycle in which every unit of device d has asked for at most
\* its declared scratch_space.
WithinDeclared(d) ==
    \A u \in Idxs : device_idx[u] = d => Requested(d, u) <= Scratch(u)

====
